---- MODULE Spec2Model ----
(***************************************************************************)
(* ESPHome media player discovery (esphome-discovery.py).                  *)
(*                                                                         *)
(* One run of main(): the token check, the bulk entity-registry attempts,  *)
(* the /states request, one loop iteration per state record (point lookup, *)
(* qualification, diagnostics lookup, append) and the final printing.      *)
(* Every HTTP response is an input chosen by the environment at the moment *)
(* the request is issued.  A second specification, NormalizerSpec, calls   *)
(* normalize_registry_payload on its own on every payload shape.           *)
(*                                                                         *)
(* JSON values are records so that values of different JSON types can      *)
(* share one collection:                                                   *)
(*   string  [ty |-> "str",  v |-> <<tokens>>]   (a string is its tokens)   *)
(*   null    [ty |-> "none", v |-> <<>>]                                    *)
(*   number  [ty |-> "int",  v |-> <<digits>>]                              *)
(*   list    [ty |-> "list", items |-> <<...>>]                             *)
(*   mapping a record without a "ty" field, its keys the mapping's keys    *)
(***************************************************************************)
EXTENDS Integers, Sequences, FiniteSets, TLC

VARIABLES
    pc,                          \* position of the run
    SUPERVISOR_TOKEN,            \* module-level token read from the environment
    entity_registry_cache,       \* entity_id -> registry entry
    diagnostics_cache,           \* config_entry_id -> list of formats
    esphome_registry_entities,   \* set(fetch_entity_registry_media_players())
    endpoint_index,              \* position in the bulk endpoints tuple
    states,                      \* parsed body of GET /states
    state_index,                 \* position of the for loop over states
    esphome_players,             \* the list being assembled
    players,                     \* value returned by discover_esphome_players
    requests,                    \* every HTTP request issued, in order
    stdout,                      \* what was printed to standard output
    stderr,                      \* what was printed to standard error
    exit_status,                 \* process exit status (-1 while running)
    call_payload,                \* argument of a call of normalize_registry_payload
    call_return                  \* what that call returned

\* the argument and the result of normalize_registry_payload called on its own
call_vars == <<call_payload, call_return>>

vars == <<pc, SUPERVISOR_TOKEN, entity_registry_cache, diagnostics_cache,
          esphome_registry_entities, endpoint_index, states, state_index,
          esphome_players, players, requests, stdout, stderr, exit_status,
          call_vars>>

----------------------------------------------------------------------------
(* Bounds *)

MaxStates == 2      \* longest /states snapshot explored

----------------------------------------------------------------------------
(* JSON values *)

Str(tokens) == [ty |-> "str", v |-> tokens]
None == [ty |-> "none", v |-> <<>>]
Num(digits) == [ty |-> "int", v |-> digits]
List(s) == [ty |-> "list", items |-> s]

isdict(x) == "ty" \notin DOMAIN x
islist(x) == "ty" \in DOMAIN x /\ x.ty = "list"
isstr(x) == "ty" \in DOMAIN x /\ x.ty = "str"

\* dict.get(key, default)
get(d, key, default) == IF key \in DOMAIN d THEN d[key] ELSE default

\* Python truthiness of a JSON scalar, list or mapping
truthy(x) ==
    IF isdict(x) THEN DOMAIN x # {}
    ELSE IF x.ty = "list" THEN x.items # <<>>
    ELSE IF x.ty = "none" THEN FALSE
    ELSE IF x.ty = "str" THEN x.v # <<>>
    ELSE x.v # <<"0">>

\* str.startswith(prefix) on token sequences
startswith(s, prefix) ==
    /\ Len(s.v) >= Len(prefix.v)
    /\ SubSeq(s.v, 1, Len(prefix.v)) = prefix.v

MEDIA_PLAYER_PREFIX == Str(<<"media_player", ".">>)
ESPHOME == Str(<<"esphome">>)
ESPHOME_ATTRIBUTION == Str(<<"ESPHome">>)
EMPTY_STR == Str(<<>>)
ZERO == Num(<<"0">>)

\* dict with no keys, and dict[key] = value
EmptyDict == [k \in {} |-> None]
setitem(d, key, value) ==
    [k \in DOMAIN d \cup {key} |-> IF k = key THEN value ELSE d[k]]

----------------------------------------------------------------------------
(* HTTP responses: a transport error, or a status code with a body.  The   *)
(* body Invalid is one that response.json() cannot parse.                  *)

Invalid == [ty |-> "invalid", v |-> <<>>]

TransportError == [exc |-> TRUE, status_code |-> 0, body |-> None]
Http(status, body) == [exc |-> FALSE, status_code |-> status, body |-> body]

\* the status is never checked
raise_for_status_skipped(response) == FALSE

\* response.raise_for_status() raises HTTPError for 4xx and 5xx
raise_for_status_raises(response) ==
    response.status_code >= 400 /\ response.status_code < 600

\* response.ok
ok(response) == ~raise_for_status_raises(response)

\* response.json() raises on an unparsable body
json_raises(response) == response.body = Invalid

----------------------------------------------------------------------------
(* Values the environment may return *)

MPK == Str(<<"media_player", ".", "kitchen">>)
MPH == Str(<<"media_player", ".", "hallway">>)
LK == Str(<<"light", ".", "kitchen">>)
OTHER_PLATFORM == Str(<<"cast">>)
CFG1 == Str(<<"c1">>)
CFG2 == Str(<<"c2">>)
SEVEN == Num(<<"7">>)

RegistryEntry(entity_id, platform, config_entry_id) ==
    [entity_id |-> entity_id, platform |-> platform,
     config_entry_id |-> config_entry_id]

\* an entry without the config_entry_id key
BareEntry(entity_id, platform) ==
    [entity_id |-> entity_id, platform |-> platform]

----------------------------------------------------------------------------
(* Bulk entity registry *)

\* Bodies of the bulk registry endpoints
BulkBodies ==
    { List(<<RegistryEntry(MPK, ESPHOME, CFG1)>>),
      [data |-> List(<<RegistryEntry(MPH, ESPHOME, CFG1),
                       RegistryEntry(LK, ESPHOME, CFG2),
                       RegistryEntry(MPK, ESPHOME, CFG2)>>)],
      [result |-> [data |-> List(<<RegistryEntry(MPK, OTHER_PLATFORM, CFG2)>>)]],
      [entries |-> List(<<RegistryEntry(MPK, ESPHOME, CFG1),
                          BareEntry(MPK, OTHER_PLATFORM), SEVEN>>)],
      [message |-> List(<<RegistryEntry(MPH, ESPHOME, CFG1)>>)],
      List(<<RegistryEntry(MPH, ESPHOME, CFG1), [entity_id |-> SEVEN]>>) }

\* answers to POST /config/entity_registry/list
BulkResponses ==
    {TransportError, Http(405, None),
     Http(500, List(<<RegistryEntry(MPK, ESPHOME, CFG1)>>))}
    \cup {Http(200, body) : body \in BulkBodies}

\* answers to GET /config/entity_registry
BulkGetResponses ==
    {TransportError, Http(405, None),
     Http(404, List(<<RegistryEntry(MPH, ESPHOME, CFG1)>>)),
     Http(200, List(<<RegistryEntry(MPH, ESPHOME, CFG1)>>))}

\* 'entries' looked at before 'data' and 'result'
normalize_registry_payload_entries_first(payload_json) ==
    IF islist(payload_json) THEN payload_json.items
    ELSE IF isdict(payload_json) THEN
        LET data == get(payload_json, "data", None)
            result == get(payload_json, "result", None)
            result_data == IF isdict(result) THEN get(result, "data", None) ELSE None
            entries == get(payload_json, "entries", None)
        IN  IF islist(entries) THEN entries.items
            ELSE IF islist(data) THEN data.items
            ELSE IF isdict(result) /\ islist(result_data) THEN result_data.items
            ELSE <<>>
    ELSE <<>>

normalize_registry_payload(payload_json) ==
    IF islist(payload_json) THEN payload_json.items
    ELSE IF isdict(payload_json) THEN
        LET data == get(payload_json, "data", None)
            result == get(payload_json, "result", None)
            result_data == IF isdict(result) THEN get(result, "data", None) ELSE None
            entries == get(payload_json, "entries", None)
        IN  IF islist(data) THEN data.items
            ELSE IF isdict(result) /\ islist(result_data) THEN result_data.items
            ELSE IF islist(entries) THEN entries.items
            ELSE <<>>
    ELSE <<>>

\* the condition of the list comprehension (lines 84-86) for one entry
is_esphome_media_player(entry) ==
    /\ isdict(entry)
    /\ startswith(get(entry, "entity_id", EMPTY_STR), MEDIA_PLAYER_PREFIX)
    /\ get(entry, "platform", None) = ESPHOME

\* the comprehension raises AttributeError on a mapping whose entity_id
\* is not a string
comprehension_raises(entries) ==
    \E i \in 1..Len(entries) :
        isdict(entries[i]) /\ ~isstr(get(entries[i], "entity_id", EMPTY_STR))

RECURSIVE esphome_entities_of(_)
esphome_entities_of(entries) ==
    IF entries = <<>> THEN <<>>
    ELSE LET rest == esphome_entities_of(Tail(entries))
         IN  IF is_esphome_media_player(Head(entries))
             THEN <<Head(entries).entity_id>> \o rest
             ELSE rest

\* for entry in entries: cache[entry['entity_id']] = entry  (lines 89-91)
RECURSIVE cache_entries(_, _)
cache_entries(cache, entries) ==
    IF entries = <<>> THEN cache
    ELSE LET entry == Head(entries)
             next == IF isdict(entry) /\ truthy(get(entry, "entity_id", None))
                     THEN setitem(cache, entry.entity_id, entry)
                     ELSE cache
         IN  cache_entries(next, Tail(entries))

\* One iteration of the loop over endpoints (lines 57-99), given the
\* response to its request.  outcome: "continue" (405), "request_exception",
\* "exception", or "parsed".
registry_attempt(cache, response) ==
    LET unchanged(outcome) ==
            [outcome |-> outcome, cache |-> cache, esphome_entities |-> <<>>]
    IN  IF response.exc THEN unchanged("request_exception")
        ELSE IF response.status_code = 405 THEN unchanged("continue")
        ELSE IF raise_for_status_raises(response) THEN unchanged("request_exception")
        ELSE IF json_raises(response) THEN unchanged("request_exception")
        ELSE LET entries == normalize_registry_payload(response.body)
             IN  IF comprehension_raises(entries) THEN unchanged("exception")
                 ELSE [outcome |-> "parsed",
                       cache |-> cache_entries(cache, entries),
                       esphome_entities |-> esphome_entities_of(entries)]

----------------------------------------------------------------------------
(* Requests, as recorded in the log with the response each one got.  index *)
(* is the position of the state record being processed when the request    *)
(* was issued (0 outside the loop)                                         *)

Request(method, url, key, response) ==
    [method |-> method, url |-> url, key |-> key,
     exc |-> response.exc, status_code |-> response.status_code,
     body |-> response.body, index |-> 0]

URL_REGISTRY_LIST == "/config/entity_registry/list"
URL_REGISTRY == "/config/entity_registry"
URL_REGISTRY_GET == "/config/entity_registry/get"
URL_REGISTRY_ENTITY == "/config/entity_registry/entity/{entity_id}"
URL_DIAGNOSTICS == "/diagnostics/config_entry/{config_entry_id}"
URL_STATES == "/states"

\* the two candidates in the opposite order
endpoints_get_first ==
    << [method |-> "GET", url |-> URL_REGISTRY],
       [method |-> "POST", url |-> URL_REGISTRY_LIST] >>

\* the endpoints tuple of fetch_entity_registry_media_players
endpoints ==
    << [method |-> "POST", url |-> URL_REGISTRY_LIST],
       [method |-> "GET", url |-> URL_REGISTRY] >>

----------------------------------------------------------------------------
(* Point lookup of one registry entry *)

PointBodies(entity_id) ==
    { RegistryEntry(entity_id, ESPHOME, CFG1),
      [data |-> BareEntry(entity_id, OTHER_PLATFORM)],
      Invalid }

\* answers to POST /config/entity_registry/get
PointResponses(entity_id) ==
    {TransportError, Http(405, None),
     Http(500, RegistryEntry(entity_id, ESPHOME, CFG1))}
    \cup {Http(200, body) : body \in PointBodies(entity_id)}

\* answers to GET /config/entity_registry/entity/{entity_id}
PointGetResponses(entity_id) ==
    {TransportError,
     Http(404, RegistryEntry(entity_id, ESPHOME, CFG1)),
     Http(200, [data |-> BareEntry(entity_id, ESPHOME)]),
     Http(200, [data |-> None, platform |-> ESPHOME])}

\* lines 170-176: the entry of an ok response, None when there is none
entry_of(response) ==
    LET payload_json == response.body
        entry == IF "data" \in DOMAIN payload_json
                 THEN payload_json.data ELSE payload_json
    IN  IF isdict(payload_json) /\ isdict(entry) THEN entry ELSE None

WARN_REGISTRY_ENTRY == "Warning: Failed to get registry entry"

\* a successful lookup returns the entry without storing it
fetch_single_registry_entry_unstored(entity_id, cache, post_response, get_response) ==
    LET post == Request("POST", URL_REGISTRY_GET, entity_id, post_response)
        getr == Request("GET", URL_REGISTRY_ENTITY, entity_id, get_response)
        finish(reqs, response) ==
            IF response.exc \/ (ok(response) /\ json_raises(response))
            THEN [entry |-> None, cache |-> cache, requests |-> reqs,
                  warnings |-> <<WARN_REGISTRY_ENTRY>>]
            ELSE IF ok(response) /\ entry_of(response) # None
            THEN [entry |-> entry_of(response), cache |-> cache,
                  requests |-> reqs, warnings |-> <<>>]
            ELSE [entry |-> None, cache |-> cache, requests |-> reqs,
                  warnings |-> <<>>]
    IN  IF entity_id \in DOMAIN cache
        THEN [entry |-> cache[entity_id], cache |-> cache,
              requests |-> <<>>, warnings |-> <<>>]
        ELSE IF ~post_response.exc /\ post_response.status_code = 405
        THEN finish(<<post, getr>>, get_response)
        ELSE finish(<<post>>, post_response)

fetch_single_registry_entry(entity_id, cache, post_response, get_response) ==
    LET post == Request("POST", URL_REGISTRY_GET, entity_id, post_response)
        getr == Request("GET", URL_REGISTRY_ENTITY, entity_id, get_response)
        finish(reqs, response) ==
            IF response.exc \/ (ok(response) /\ json_raises(response))
            THEN [entry |-> None, cache |-> cache, requests |-> reqs,
                  warnings |-> <<WARN_REGISTRY_ENTRY>>]
            ELSE IF ok(response) /\ entry_of(response) # None
            THEN [entry |-> entry_of(response),
                  cache |-> setitem(cache, entity_id, entry_of(response)),
                  requests |-> reqs, warnings |-> <<>>]
            ELSE [entry |-> None, cache |-> cache, requests |-> reqs,
                  warnings |-> <<>>]
    IN  IF entity_id \in DOMAIN cache
        THEN [entry |-> cache[entity_id], cache |-> cache,
              requests |-> <<>>, warnings |-> <<>>]
        ELSE IF ~post_response.exc /\ post_response.status_code = 405
        THEN finish(<<post, getr>>, get_response)
        ELSE finish(<<post>>, post_response)

----------------------------------------------------------------------------
(* Diagnostics *)

FLAC == [format |-> Str(<<"flac">>)]
MP3 == [format |-> Str(<<"mp3">>)]

DiagnosticsBodies ==
    { [data |-> [storage_data |-> [media_player |-> List(<<
            [supported_formats |-> List(<<FLAC, SEVEN, MP3>>)],
            SEVEN,
            [supported_formats |-> None],
            [supported_formats |-> List(<<MP3>>)] >>)]]],
      [data |-> [storage_data |-> List(<<FLAC>>)]] }

DiagnosticsResponses ==
    {TransportError, Http(404, None),
     Http(500, [data |-> [storage_data |-> [media_player |-> List(<<
            [supported_formats |-> List(<<FLAC>>)] >>)]]])}
    \cup {Http(200, body) : body \in DiagnosticsBodies}

\* for fmt in formats: if isinstance(fmt, dict): append  (lines 136-138)
formats_of(media_player) ==
    LET formats == IF isdict(media_player)
                   THEN get(media_player, "supported_formats", None) ELSE None
    IN  IF islist(formats) THEN SelectSeq(formats.items, isdict) ELSE <<>>

RECURSIVE collect_formats(_)
collect_formats(media_players) ==
    IF media_players = <<>> THEN <<>>
    ELSE formats_of(Head(media_players)) \o collect_formats(Tail(media_players))

\* lines 126-138
supported_formats_of(payload) ==
    LET data == IF isdict(payload) THEN get(payload, "data", None) ELSE None
        storage == IF isdict(data) THEN get(data, "storage_data", None) ELSE None
        media_players == IF isdict(storage)
                         THEN get(storage, "media_player", None) ELSE None
    IN  IF islist(media_players) THEN collect_formats(media_players.items)
        ELSE <<>>

WARN_DIAGNOSTICS == "Warning: Failed to fetch diagnostics"

\* the failure paths return without storing anything in the cache
fetch_esphome_supported_formats_uncached_failure(config_entry_id, cache, response) ==
    LET req == <<Request("GET", URL_DIAGNOSTICS, config_entry_id, response)>>
        failed == [formats |-> <<>>, cache |-> cache,
                   requests |-> req, warnings |-> <<WARN_DIAGNOSTICS>>]
    IN  IF ~truthy(config_entry_id)
        THEN [formats |-> <<>>, cache |-> cache,
              requests |-> <<>>, warnings |-> <<>>]
        ELSE IF config_entry_id \in DOMAIN cache
        THEN [formats |-> cache[config_entry_id], cache |-> cache,
              requests |-> <<>>, warnings |-> <<>>]
        ELSE IF response.exc THEN failed
        ELSE IF response.status_code = 404
        THEN [formats |-> <<>>,
              cache |-> setitem(cache, config_entry_id, <<>>),
              requests |-> req, warnings |-> <<>>]
        ELSE IF raise_for_status_raises(response) \/ json_raises(response)
        THEN failed
        ELSE LET supported_formats == supported_formats_of(response.body)
             IN  [formats |-> supported_formats,
                  cache |-> setitem(cache, config_entry_id, supported_formats),
                  requests |-> req, warnings |-> <<>>]

fetch_esphome_supported_formats(config_entry_id, cache, response) ==
    LET req == <<Request("GET", URL_DIAGNOSTICS, config_entry_id, response)>>
        failed == [formats |-> <<>>,
                   cache |-> setitem(cache, config_entry_id, <<>>),
                   requests |-> req, warnings |-> <<WARN_DIAGNOSTICS>>]
    IN  IF ~truthy(config_entry_id)
        THEN [formats |-> <<>>, cache |-> cache,
              requests |-> <<>>, warnings |-> <<>>]
        ELSE IF config_entry_id \in DOMAIN cache
        THEN [formats |-> cache[config_entry_id], cache |-> cache,
              requests |-> <<>>, warnings |-> <<>>]
        ELSE IF response.exc THEN failed
        ELSE IF response.status_code = 404
        THEN [formats |-> <<>>,
              cache |-> setitem(cache, config_entry_id, <<>>),
              requests |-> req, warnings |-> <<>>]
        ELSE IF raise_for_status_raises(response) \/ json_raises(response)
        THEN failed
        ELSE LET supported_formats == supported_formats_of(response.body)
             IN  [formats |-> supported_formats,
                  cache |-> setitem(cache, config_entry_id, supported_formats),
                  requests |-> req, warnings |-> <<>>]

----------------------------------------------------------------------------
(* State snapshot *)

IDLE == Str(<<"idle">>)

StateRecord(entity_id, attributes) ==
    [entity_id |-> entity_id, state |-> IDLE, attributes |-> attributes]

StateRecords ==
    { StateRecord(MPK, [attribution |-> ESPHOME_ATTRIBUTION]),
      StateRecord(MPH, EmptyDict),
      StateRecord(LK, [attribution |-> ESPHOME_ATTRIBUTION, platform |-> ESPHOME]),
      StateRecord(MPH, [platform |-> ESPHOME,
                        friendly_name |-> Str(<<"Hallway">>),
                        supported_features |-> SEVEN]),
      SEVEN,
      StateRecord(MPK, None) }

RECURSIVE SeqsUpTo(_, _)
SeqsUpTo(S, n) ==
    IF n = 0 THEN {<<>>}
    ELSE LET shorter == SeqsUpTo(S, n - 1)
         IN  shorter \cup {Append(q, x) : q \in shorter, x \in S}

Snapshots == SeqsUpTo(StateRecords, MaxStates)

StatesResponses ==
    {TransportError, Http(200, None), Http(200, Invalid),
     Http(500, List(<<StateRecord(MPK, [attribution |-> ESPHOME_ATTRIBUTION])>>))}
    \cup {Http(200, List(snapshot)) : snapshot \in Snapshots}

----------------------------------------------------------------------------
(* The body of the loop over states (lines 197-229) *)

\* lines 198-205 raise AttributeError on a record that is not a mapping, an
\* entity_id that is not a string, or (for a media player) attributes that
\* are not a mapping
record_raises(entity) ==
    \/ ~isdict(entity)
    \/ ~isstr(get(entity, "entity_id", EMPTY_STR))
    \/ /\ startswith(get(entity, "entity_id", EMPTY_STR), MEDIA_PLAYER_PREFIX)
       /\ ~isdict(get(entity, "attributes", EmptyDict))

\* the registry platform left out of the condition
qualifies_without_registry_platform(attribution, entity_id, registry_entities, attributes_platform, platform) ==
    \/ attribution = ESPHOME_ATTRIBUTION
    \/ entity_id \in registry_entities
    \/ attributes_platform = ESPHOME

\* the condition of lines 213-218
qualifies(attribution, entity_id, registry_entities, attributes_platform, platform) ==
    \/ attribution = ESPHOME_ATTRIBUTION
    \/ entity_id \in registry_entities
    \/ attributes_platform = ESPHOME
    \/ platform = ESPHOME

Player(entity, entity_id, attributes, config_entry_id, supported_formats) ==
    [entity_id |-> entity_id,
     friendly_name |-> get(attributes, "friendly_name", entity_id),
     state |-> get(entity, "state", None),
     supported_features |-> get(attributes, "supported_features", ZERO),
     config_entry_id |-> config_entry_id,
     esphome_supported_formats |-> supported_formats]

\* the prefix test dropped: every record with a string entity_id goes on
is_media_player_unchecked(entity_id) == TRUE

\* line 202: entity_id.startswith('media_player.')
is_media_player(entity_id) == startswith(entity_id, MEDIA_PLAYER_PREFIX)

\* the new record put in front of the list
append_in_front(list, appended) == appended \o list

\* esphome_players.append({...}), line 222
append(list, appended) == list \o appended

\* One iteration for a record that does not raise.  appended holds the
\* player appended to esphome_players, if any.
loop_body(entity, registry_cache, diag_cache, registry_entities, post_response, get_response, diag_response) ==
    LET entity_id == get(entity, "entity_id", EMPTY_STR)
        attributes == get(entity, "attributes", EmptyDict)
        skipped == [registry_cache |-> registry_cache, diag_cache |-> diag_cache,
                    appended |-> <<>>, requests |-> <<>>, warnings |-> <<>>]
    IN  IF ~is_media_player(entity_id) THEN skipped
        ELSE
        LET attribution == get(attributes, "attribution", None)
            lookup == fetch_single_registry_entry(
                          entity_id, registry_cache, post_response, get_response)
            registry_entry == lookup.entry
            platform == IF isdict(registry_entry)
                        THEN get(registry_entry, "platform", None) ELSE None
            config_entry_id == IF isdict(registry_entry)
                               THEN get(registry_entry, "config_entry_id", None)
                               ELSE None
        IN  IF qualifies(attribution, entity_id, registry_entities,
                         get(attributes, "platform", None), platform)
            THEN LET diag == fetch_esphome_supported_formats(
                                 config_entry_id, diag_cache, diag_response)
                 IN  [registry_cache |-> lookup.cache,
                      diag_cache |-> diag.cache,
                      appended |-> <<Player(entity, entity_id, attributes,
                                            config_entry_id, diag.formats)>>,
                      requests |-> lookup.requests \o diag.requests,
                      warnings |-> lookup.warnings \o diag.warnings]
            ELSE [registry_cache |-> lookup.cache, diag_cache |-> diag_cache,
                  appended |-> <<>>, requests |-> lookup.requests,
                  warnings |-> lookup.warnings]

----------------------------------------------------------------------------
(* Printing *)

ERR_NO_TOKEN == "ERROR: SUPERVISOR_TOKEN not available"
ERR_CONNECTING == "Error connecting to Home Assistant API"
ERR_DISCOVERING == "Error discovering ESPHome players"
WARN_REGISTRY_QUERY == "Warning: Entity registry query failed"
WARN_REGISTRY_PARSE == "Warning: Unexpected error parsing entity registry response"
MSG_NONE_FOUND == "No ESPHome media players found"
MSG_FOUND == "Found {len(players)} ESPHome media player(s):"
MSG_PLAYER == "  - {friendly_name} ({entity_id})"

\* print(json.dumps(value)): one JSON array
JsonLine(value) == [kind |-> "json", text |-> "json.dumps", value |-> value]
\* print(f"..."): human readable text formatted from value
TextLine(text, value) == [kind |-> "text", text |-> text, value |-> value]

is_json_array(line) == line.kind = "json"

\* only an unset token counts as missing
token_is_none(token) == token = None

\* line 242: if not SUPERVISOR_TOKEN
token_missing(token) == ~truthy(token)

\* lines 249-259: what main prints to standard output for a result
main_stdout(result) ==
    IF result = <<>> THEN <<JsonLine(<<>>)>>
    ELSE <<TextLine(MSG_FOUND, result)>>
         \o [i \in 1..Len(result) |-> TextLine(MSG_PLAYER, <<result[i]>>)]
         \o <<JsonLine(result)>>

\* lines 249-259: what main prints to standard error for a result
main_stderr(result) ==
    IF result = <<>> THEN <<TextLine(MSG_NONE_FOUND, <<>>)>> ELSE <<>>

\* the exception leaves discover_esphome_players and ends the process
discover_except_reraises(message) ==
    [pc |-> "exited", players |-> <<>>,
     stderr |-> <<TextLine("Traceback (most recent call last):", <<>>)>>,
     exit_status |-> 1]

\* lines 233-238: both handlers of the outer try return an empty list
discover_except(message) ==
    [pc |-> "print", players |-> <<>>, stderr |-> <<TextLine(message, <<>>)>>,
     exit_status |-> -1]

----------------------------------------------------------------------------
(* The run *)

Tokens == {None, EMPTY_STR, Str(<<"token">>)}

Init ==
    /\ pc = "main"
    /\ SUPERVISOR_TOKEN \in Tokens
    /\ entity_registry_cache = EmptyDict
    /\ diagnostics_cache = EmptyDict
    /\ esphome_registry_entities = {}
    /\ endpoint_index = 1
    /\ states = None
    /\ state_index = 0
    /\ esphome_players = <<>>
    /\ players = <<>>
    /\ requests = <<>>
    /\ stdout = <<>>
    /\ stderr = <<>>
    /\ exit_status = -1
    /\ call_payload = None
    /\ call_return = <<>>

Range(s) == {s[i] : i \in 1..Len(s)}

AtIndex(reqs, index) == [i \in 1..Len(reqs) |-> [reqs[i] EXCEPT !.index = index]]

\* main, lines 242-247: without a token print [] and exit, else discover
MainStart ==
    /\ pc = "main"
    /\ IF token_missing(SUPERVISOR_TOKEN)
       THEN /\ stderr' = Append(stderr, TextLine(ERR_NO_TOKEN, <<>>))
            /\ stdout' = Append(stdout, JsonLine(<<>>))
            /\ exit_status' = 0
            /\ pc' = "exited"
       ELSE /\ pc' = "registry"
            /\ UNCHANGED <<stderr, stdout, exit_status>>
    /\ UNCHANGED call_vars
    /\ UNCHANGED <<SUPERVISOR_TOKEN, entity_registry_cache, diagnostics_cache,
                   esphome_registry_entities, endpoint_index, states,
                   state_index, esphome_players, players, requests>>

\* fetch_entity_registry_media_players, one endpoint of lines 57-101
RegistryAttempt ==
    /\ pc = "registry"
    /\ \E response \in (IF endpoints[endpoint_index].method = "POST"
                         THEN BulkResponses ELSE BulkGetResponses) :
        LET endpoint == endpoints[endpoint_index]
            attempt == registry_attempt(entity_registry_cache, response)
            warning == IF attempt.outcome = "request_exception"
                       THEN <<TextLine(WARN_REGISTRY_QUERY, <<>>)>>
                       ELSE IF attempt.outcome = "exception"
                       THEN <<TextLine(WARN_REGISTRY_PARSE, <<>>)>>
                       ELSE <<>>
        IN  /\ requests' = Append(requests,
                    Request(endpoint.method, endpoint.url, None, response))
            /\ stderr' = stderr \o warning
            /\ entity_registry_cache' = attempt.cache
            /\ IF attempt.outcome = "parsed" /\ attempt.esphome_entities # <<>>
               THEN /\ esphome_registry_entities' = Range(attempt.esphome_entities)
                    /\ pc' = "states"
                    /\ UNCHANGED endpoint_index
               ELSE IF endpoint_index < Len(endpoints)
               THEN /\ endpoint_index' = endpoint_index + 1
                    /\ UNCHANGED <<esphome_registry_entities, pc>>
               ELSE /\ esphome_registry_entities' = {}
                    /\ pc' = "states"
                    /\ UNCHANGED endpoint_index
    /\ UNCHANGED call_vars
    /\ UNCHANGED <<SUPERVISOR_TOKEN, diagnostics_cache, states, state_index,
                   esphome_players, players, stdout, exit_status>>

\* lines 185-196 and the handlers of lines 233-238
FetchStates ==
    /\ pc = "states"
    /\ \E response \in StatesResponses :
        /\ requests' = Append(requests, Request("GET", URL_STATES, None, response))
        /\ IF response.exc \/ raise_for_status_raises(response)
              \/ json_raises(response) \/ ~islist(response.body)
           THEN LET handled == discover_except(
                        IF response.exc \/ raise_for_status_raises(response)
                           \/ json_raises(response)
                        THEN ERR_CONNECTING ELSE ERR_DISCOVERING)
                IN  /\ pc' = handled.pc
                    /\ players' = handled.players
                    /\ stderr' = stderr \o handled.stderr
                    /\ exit_status' = handled.exit_status
                    /\ UNCHANGED <<states, state_index>>
           ELSE /\ states' = response.body
                /\ state_index' = 1
                /\ pc' = "loop"
                /\ UNCHANGED <<players, stderr, exit_status>>
    /\ UNCHANGED call_vars
    /\ UNCHANGED <<SUPERVISOR_TOKEN, entity_registry_cache, diagnostics_cache,
                   esphome_registry_entities, endpoint_index, esphome_players,
                   stdout>>

\* The responses the environment gives to a request: none when the request
\* is not issued
Answers(issued, responses) == IF issued THEN responses ELSE {TransportError}

HasRequest(reqs, url) == \E i \in 1..Len(reqs) : reqs[i].url = url

\* one iteration of the for loop, lines 197-229
ProcessEntity ==
    /\ pc = "loop"
    /\ state_index <= Len(states.items)
    /\ LET entity == states.items[state_index]
       IN  IF record_raises(entity)
           THEN LET handled == discover_except(ERR_DISCOVERING)
                IN  /\ pc' = handled.pc
                    /\ players' = handled.players
                    /\ stderr' = stderr \o handled.stderr
                    /\ exit_status' = handled.exit_status
                    /\ UNCHANGED <<entity_registry_cache, diagnostics_cache,
                                   state_index, esphome_players, requests>>
           ELSE
           LET body(post, getr, diag) ==
                   loop_body(entity, entity_registry_cache, diagnostics_cache,
                             esphome_registry_entities, post, getr, diag)
               entity_id == get(entity, "entity_id", EMPTY_STR)
               probe0 == body(TransportError, TransportError, TransportError)
           IN  \E post \in Answers(HasRequest(probe0.requests, URL_REGISTRY_GET),
                                   PointResponses(entity_id)) :
               LET probe1 == body(post, TransportError, TransportError)
               IN  \E getr \in Answers(HasRequest(probe1.requests, URL_REGISTRY_ENTITY),
                                       PointGetResponses(entity_id)) :
                   LET probe2 == body(post, getr, TransportError)
                   IN  \E diag \in Answers(HasRequest(probe2.requests, URL_DIAGNOSTICS),
                                           DiagnosticsResponses) :
                       LET done == body(post, getr, diag)
                       IN  /\ entity_registry_cache' = done.registry_cache
                           /\ diagnostics_cache' = done.diag_cache
                           /\ esphome_players' = append(esphome_players, done.appended)
                           /\ requests' = requests \o AtIndex(done.requests, state_index)
                           /\ stderr' = stderr \o
                                  [i \in 1..Len(done.warnings) |->
                                      TextLine(done.warnings[i], <<>>)]
                           /\ state_index' = state_index + 1
                           /\ UNCHANGED <<pc, players, exit_status>>
    /\ UNCHANGED call_vars
    /\ UNCHANGED <<SUPERVISOR_TOKEN, esphome_registry_entities, endpoint_index,
                   states, stdout>>

\* line 231: return esphome_players
ReturnPlayers ==
    /\ pc = "loop"
    /\ state_index > Len(states.items)
    /\ players' = esphome_players
    /\ pc' = "print"
    /\ UNCHANGED call_vars
    /\ UNCHANGED <<SUPERVISOR_TOKEN, entity_registry_cache, diagnostics_cache,
                   esphome_registry_entities, endpoint_index, states,
                   state_index, esphome_players, requests, stdout, stderr,
                   exit_status>>

\* main, lines 249-259, and the normal end of the process
PrintPlayers ==
    /\ pc = "print"
    /\ stdout' = stdout \o main_stdout(players)
    /\ stderr' = stderr \o main_stderr(players)
    /\ exit_status' = 0
    /\ pc' = "exited"
    /\ UNCHANGED call_vars
    /\ UNCHANGED <<SUPERVISOR_TOKEN, entity_registry_cache, diagnostics_cache,
                   esphome_registry_entities, endpoint_index, states,
                   state_index, esphome_players, players, requests>>

Next ==
    \/ MainStart
    \/ RegistryAttempt
    \/ FetchStates
    \/ ProcessEntity
    \/ ReturnPlayers
    \/ PrintPlayers

Spec == Init /\ [][Next]_vars

\* the process is never suspended forever: every step that can be taken is taken
FairSpec == Spec /\ WF_vars(Next)

----------------------------------------------------------------------------
(* normalize_registry_payload called on its own, on every payload shape    *)

NoKey == [ty |-> "absent", v |-> <<>>]

FIRST == [entity_id |-> MPK]
SECOND == [entity_id |-> MPH]
THIRD == [entity_id |-> LK]

DataValues == {NoKey, List(<<FIRST>>), List(<<>>), None, [data |-> List(<<FIRST>>)]}
ResultValues ==
    {NoKey, [data |-> List(<<SECOND>>)], [data |-> None],
     [entries |-> List(<<SECOND>>)], List(<<SECOND>>), None}
EntriesValues == {NoKey, List(<<THIRD>>), None, Str(<<"entries">>)}

\* the mapping with the given values under 'data', 'result' and 'entries',
\* a key being left out when its value is NoKey
Mapping(data, result, entries) ==
    LET value(k) == CASE k = "data" -> data
                      [] k = "result" -> result
                      [] OTHER -> entries
    IN  [k \in {key \in {"data", "result", "entries"} : value(key) # NoKey}
            |-> value(k)]

NormalizerPayloads ==
    {List(<<FIRST, SEVEN>>), List(<<>>), None, SEVEN, Str(<<"data">>),
     [message |-> List(<<FIRST>>)]}
    \cup {Mapping(d, r, e) : d \in DataValues, r \in ResultValues,
                             e \in EntriesValues}

NormalizerInit ==
    /\ pc = "normalize"
    /\ call_payload \in NormalizerPayloads
    /\ call_return = <<>>
    /\ SUPERVISOR_TOKEN = None
    /\ entity_registry_cache = EmptyDict
    /\ diagnostics_cache = EmptyDict
    /\ esphome_registry_entities = {}
    /\ endpoint_index = 1
    /\ states = None
    /\ state_index = 0
    /\ esphome_players = <<>>
    /\ players = <<>>
    /\ requests = <<>>
    /\ stdout = <<>>
    /\ stderr = <<>>
    /\ exit_status = -1

\* entries = normalize_registry_payload(payload_json), line 79
Normalize ==
    /\ pc = "normalize"
    /\ call_return' = normalize_registry_payload(call_payload)
    /\ pc' = "normalized"
    /\ UNCHANGED <<call_payload, SUPERVISOR_TOKEN, entity_registry_cache,
                   diagnostics_cache, esphome_registry_entities,
                   endpoint_index, states, state_index, esphome_players,
                   players, requests, stdout, stderr, exit_status>>

NormalizerNext == Normalize

NormalizerSpec == NormalizerInit /\ [][NormalizerNext]_vars

----------------------------------------------------------------------------
(* Vocabulary of the properties *)

Failed(request) == request.exc \/ request.status_code >= 400

IsBulkPost(request) == request.method = "POST" /\ request.url = URL_REGISTRY_LIST
IsBulkGet(request) == request.method = "GET" /\ request.url = URL_REGISTRY
IsStatesGet(request) == request.method = "GET" /\ request.url = URL_STATES
IsPointLookup(request) == request.url \in {URL_REGISTRY_GET, URL_REGISTRY_ENTITY}
IsDiagnostics(request) == request.url = URL_DIAGNOSTICS

StatesFetched == islist(states)
StatesFailed == \E k \in 1..Len(requests) : IsStatesGet(requests[k]) /\ Failed(requests[k])
Snapshot == IF StatesFetched THEN states.items ELSE <<>>

\* the record's entity_id, when the record is a mapping with a string id
HasMediaPlayerId(entity) ==
    /\ isdict(entity)
    /\ isstr(get(entity, "entity_id", EMPTY_STR))
    /\ startswith(get(entity, "entity_id", EMPTY_STR), MEDIA_PLAYER_PREFIX)

HasEsphomeAttribution(entity) ==
    /\ HasMediaPlayerId(entity)
    /\ isdict(get(entity, "attributes", EmptyDict))
    /\ get(get(entity, "attributes", EmptyDict), "attribution", None)
          = ESPHOME_ATTRIBUTION

InOutput(entity_id) == \E j \in 1..Len(players) : players[j].entity_id = entity_id

LightWithAttribution ==
    StateRecord(LK, [attribution |-> ESPHOME_ATTRIBUTION, platform |-> ESPHOME])

----------------------------------------------------------------------------
(* C1: in every run of main, standard output holds exactly one JSON array  *)
(* and nothing else; the count line and the per-device lines never appear  *)
(* on standard output.                                                     *)
C1_StdoutIsExactlyOneJsonArray ==
    pc = "exited" =>
        /\ Len(stdout) = 1
        /\ is_json_array(stdout[1])
        /\ \A i \in 1..Len(stdout) : stdout[i].text \notin {MSG_FOUND, MSG_PLAYER}

(* C2: the sequence returned by discover_esphome_players never holds two   *)
(* records with the same entity_id, also when a snapshot repeats one.      *)
C2_NoDuplicateEntityId ==
    \A i, j \in 1..Len(players) :
        i # j => players[i].entity_id # players[j].entity_id

(* C3: every output record has an entity_id starting with 'media_player.', *)
(* and every point-lookup or diagnostics request was issued while          *)
(* processing a state record whose entity_id has that prefix.              *)
C3_OnlyMediaPlayers ==
    /\ \A j \in 1..Len(esphome_players) :
          startswith(esphome_players[j].entity_id, MEDIA_PLAYER_PREFIX)
    /\ \A j \in 1..Len(players) :
          startswith(players[j].entity_id, MEDIA_PLAYER_PREFIX)
    /\ \A k \in 1..Len(requests) :
          (IsPointLookup(requests[k]) \/ IsDiagnostics(requests[k])) =>
              /\ requests[k].index \in 1..Len(Snapshot)
              /\ HasMediaPlayerId(Snapshot[requests[k].index])
    /\ \A k \in 1..Len(requests) :
          IsPointLookup(requests[k]) =>
              startswith(requests[k].key, MEDIA_PLAYER_PREFIX)

\* light.kitchen with attribution 'ESPHome' was processed and left out while
\* a media player of the same snapshot was discovered
C3_Witness ==
    /\ pc = "exited"
    /\ players # <<>>
    /\ \E i \in 1..Len(Snapshot) : Snapshot[i] = LightWithAttribution

\* no registry request yielded an entry
RegistryDegraded == DOMAIN entity_registry_cache = {}

(* C4: when /states succeeds, every media_player record whose attribution  *)
(* is 'ESPHome' is in the output whatever the registry requests returned,  *)
(* and when they yielded nothing its config_entry_id is null and its       *)
(* esphome_supported_formats is empty.                                     *)
C4_AttributionAloneSuffices ==
    (pc = "exited" /\ StatesFetched) =>
        \A i \in 1..Len(Snapshot) :
            HasEsphomeAttribution(Snapshot[i]) =>
                /\ InOutput(Snapshot[i].entity_id)
                /\ RegistryDegraded =>
                      \A j \in 1..Len(players) :
                          players[j].entity_id = Snapshot[i].entity_id =>
                              /\ players[j].config_entry_id = None
                              /\ players[j].esphome_supported_formats = <<>>

\* every record of the snapshot can be read by the loop
WellFormedSnapshot ==
    StatesFetched /\ \A i \in 1..Len(Snapshot) : ~record_raises(Snapshot[i])

\* the four signals for the record just processed, with the registry entry
\* resolved for it read from the cache as the iteration left it
SignalsOf(entity, cache_after) ==
    LET entity_id == entity.entity_id
        attributes == get(entity, "attributes", EmptyDict)
        resolved == IF entity_id \in DOMAIN cache_after
                    THEN cache_after[entity_id] ELSE None
    IN  \/ get(attributes, "attribution", None) = ESPHOME_ATTRIBUTION
        \/ entity_id \in esphome_registry_entities
        \/ get(attributes, "platform", None) = ESPHOME
        \/ isdict(resolved) /\ get(resolved, "platform", None) = ESPHOME

(* C5: with well-formed records, a media_player record is appended to the  *)
(* output if and only if one of the four signals holds for it (attribution,*)
(* bulk set, attributes.platform, platform of the resolved registry        *)
(* entry); other records are never appended, and the assembled list is     *)
(* what discovery returns.                                                 *)
C5_IncludedIffSomeSignal ==
    /\ [](pc \in {"print", "exited"} /\ WellFormedSnapshot
             => players = esphome_players)
    /\ [][ (pc = "loop" /\ state_index' = state_index + 1) =>
             LET entity == Snapshot[state_index]
             IN  IF HasMediaPlayerId(entity)
                 THEN IF SignalsOf(entity, entity_registry_cache')
                      THEN /\ Len(esphome_players') = Len(esphome_players) + 1
                           /\ SubSeq(esphome_players', 1, Len(esphome_players))
                                  = esphome_players
                           /\ esphome_players'[Len(esphome_players')].entity_id
                                  = entity.entity_id
                      ELSE esphome_players' = esphome_players
                 ELSE esphome_players' = esphome_players ]_vars

\* media_player.hallway, without attribution and outside the bulk set, is in
\* the output because its point lookup answered with platform 'esphome'
C5_Witness ==
    /\ pc = "exited"
    /\ Snapshot = <<StateRecord(MPH, EmptyDict)>>
    /\ MPH \notin esphome_registry_entities
    /\ InOutput(MPH)
    /\ \E k \in 1..Len(requests) :
          IsPointLookup(requests[k]) /\ ~Failed(requests[k])

(* C6: a discovery run issues at most one diagnostics request per          *)
(* config_entry_id, and every diagnostics request, whatever its outcome,   *)
(* leaves a value for its config_entry_id in diagnostics_cache.            *)
C6_OneDiagnosticsRequestPerConfigEntry ==
    /\ \A k, l \in 1..Len(requests) :
          (k # l /\ IsDiagnostics(requests[k]) /\ IsDiagnostics(requests[l]))
              => requests[k].key # requests[l].key
    /\ \A k \in 1..Len(requests) :
          IsDiagnostics(requests[k]) =>
              requests[k].key \in DOMAIN diagnostics_cache

\* two players share a config_entry_id whose only diagnostics request failed
C6_Witness ==
    /\ Len(players) = 2
    /\ players[1].config_entry_id = CFG1
    /\ players[2].config_entry_id = CFG1
    /\ \E k \in 1..Len(requests) :
          /\ IsDiagnostics(requests[k])
          /\ requests[k].key = CFG1
          /\ requests[k].exc

\* fetch_entity_registry_media_players has returned
BulkDone == pc \in {"states", "loop", "print"} \/ (pc = "exited" /\ requests # <<>>)

(* C7: the bulk POST is the first request; when it fails (405, transport   *)
(* error, non-2xx) the bulk GET is the next request; when both fail the    *)
(* bulk set is empty and the run goes on to request /states.               *)
C7_BulkFallbackOrder ==
    /\ requests # <<>> => IsBulkPost(requests[1])
    /\ (requests # <<>> /\ Failed(requests[1])) =>
          /\ Len(requests) >= 2 => IsBulkGet(requests[2])
          /\ BulkDone => Len(requests) >= 2
    /\ (Len(requests) >= 2 /\ Failed(requests[1])
          /\ IsBulkGet(requests[2]) /\ Failed(requests[2])) =>
          /\ BulkDone => esphome_registry_entities = {}
          /\ Len(requests) >= 3 => IsStatesGet(requests[3])
          /\ pc \in {"loop", "print", "exited"} => Len(requests) >= 3

\* POST answered 405, GET raised a transport error, and a player was found
C7_Witness ==
    /\ pc = "exited"
    /\ Len(requests) >= 3
    /\ requests[1].status_code = 405
    /\ requests[2].exc
    /\ players # <<>>

(* C8: when GET /states fails (transport error or non-2xx) discovery       *)
(* returns an empty sequence, issues no point-lookup or diagnostics        *)
(* request, and main prints [] and exits with status 0.                    *)
C8_StatesFailureYieldsEmpty ==
    StatesFailed =>
        /\ players = <<>>
        /\ \A k \in 1..Len(requests) :
              ~IsPointLookup(requests[k]) /\ ~IsDiagnostics(requests[k])
        /\ pc = "exited" => stdout = <<JsonLine(<<>>)>> /\ exit_status = 0

\* /states answered 500 after the bulk phase had found ESPHome entities
C8_Witness ==
    /\ pc = "exited"
    /\ esphome_registry_entities # {}
    /\ \E k \in 1..Len(requests) :
          IsStatesGet(requests[k]) /\ requests[k].status_code = 500

TokenAbsent == SUPERVISOR_TOKEN \in {None, EMPTY_STR}

(* C9: with an absent or empty SUPERVISOR_TOKEN main issues no request,    *)
(* writes the error line to standard error and [] to standard output, and  *)
(* exits with status 0.                                                    *)
C9_NoTokenNoRequest ==
    TokenAbsent =>
        /\ requests = <<>>
        /\ pc \in {"main", "exited"}
        /\ pc = "exited" =>
              /\ stderr = <<TextLine(ERR_NO_TOKEN, <<>>)>>
              /\ stdout = <<JsonLine(<<>>)>>
              /\ exit_status = 0

\* the run with an empty token has ended
C9_Witness == pc = "exited" /\ SUPERVISOR_TOKEN = EMPTY_STR

\* position of the run, and what is left of the loop it is in
Phase ==
    CASE pc = "main" -> 5
      [] pc = "registry" -> 4
      [] pc = "states" -> 3
      [] pc = "loop" -> 2
      [] pc = "print" -> 1
      [] OTHER -> 0

Remaining ==
    CASE pc = "registry" -> Len(endpoints) - endpoint_index
      [] pc = "loop" -> Len(Snapshot) + 1 - state_index
      [] OTHER -> 0

\* a run that has not ended has a next step: inside the loop either a state
\* record is left to process or the loop returns
CanStep ==
    IF pc = "loop"
    THEN state_index \in 1..Len(Snapshot) \/ ENABLED ReturnPlayers
    ELSE ENABLED Next

(* C10: every run of main terminates with exit status 0 after emitting a   *)
(* JSON array: the run ends only in the exited state with status 0 and a   *)
(* JSON array as the last thing on standard output, a run that has not     *)
(* ended can always take a step (no exception leaves it stuck or ends it   *)
(* early), and every step brings it strictly closer to the end.            *)
C10_AlwaysExitsZeroWithJson ==
    /\ [](pc = "exited" =>
             /\ exit_status = 0
             /\ stdout # <<>>
             /\ is_json_array(stdout[Len(stdout)]))
    /\ [](pc # "exited" => exit_status = -1 /\ Remaining >= 0 /\ CanStep)
    /\ [][ \/ Phase' < Phase
           \/ Phase' = Phase /\ Remaining' < Remaining ]_vars

\* a run in which a request raised a transport error and a malformed state
\* record raised in the loop has ended
C10_Witness ==
    /\ pc = "exited"
    /\ \E k \in 1..Len(requests) : requests[k].exc
    /\ \E i \in 1..Len(stderr) : stderr[i].text = ERR_DISCOVERING
    /\ \E i \in 1..Len(Snapshot) : ~isdict(Snapshot[i])

\* the entity_id of a state record or of an output record
EntityIdOf(record) ==
    IF isdict(record) THEN get(record, "entity_id", EMPTY_STR) ELSE None

EntityIds(records) == [i \in 1..Len(records) |-> EntityIdOf(records[i])]

\* sub is seq with some elements left out, the rest in the same order
RECURSIVE IsSubsequence(_, _)
IsSubsequence(sub, seq) ==
    IF sub = <<>> THEN TRUE
    ELSE IF seq = <<>> THEN FALSE
    ELSE IF Head(sub) = Head(seq) THEN IsSubsequence(Tail(sub), Tail(seq))
    ELSE IsSubsequence(sub, Tail(seq))

(* C11: the entity_ids of the output records, in output order, are a       *)
(* subsequence of the entity_ids of the /states records in response order, *)
(* whatever order the registry responses list their entries in; while the  *)
(* loop runs, the list assembled so far is a subsequence of the records    *)
(* already processed.                                                      *)
C11_OutputKeepsSnapshotOrder ==
    /\ IsSubsequence(EntityIds(players), EntityIds(Snapshot))
    /\ pc = "loop" =>
          IsSubsequence(EntityIds(esphome_players),
                        EntityIds(SubSeq(Snapshot, 1, state_index - 1)))

\* kitchen then hallway in the snapshot and in the output, while the bulk
\* registry response listed hallway before kitchen
C11_Witness ==
    /\ pc = "exited"
    /\ EntityIds(Snapshot) = <<MPK, MPH>>
    /\ EntityIds(players) = <<MPK, MPH>>
    /\ esphome_registry_entities = {MPH, MPK}

\* the three copied fields of an output record are those of a state record
CopiedFrom(player, entity) ==
    LET attributes == get(entity, "attributes", EmptyDict)
    IN  /\ isdict(attributes)
        /\ player.friendly_name =
              (IF "friendly_name" \in DOMAIN attributes
               THEN attributes.friendly_name ELSE player.entity_id)
        /\ player.state =
              (IF "state" \in DOMAIN entity THEN entity.state ELSE None)
        /\ player.supported_features =
              (IF "supported_features" \in DOMAIN attributes
               THEN attributes.supported_features ELSE ZERO)

(* C12: for every output record, friendly_name, state and                  *)
(* supported_features are those of the state record with its entity_id in  *)
(* the snapshot (friendly_name falling back to the entity_id,              *)
(* supported_features to 0), so that looking the entity_id up again in the *)
(* snapshot, whichever record of that entity_id the lookup lands on,       *)
(* reproduces the three values.                                            *)
C12_FieldsMatchSnapshotRecord ==
    \A j \in 1..Len(players) :
        /\ \E i \in 1..Len(Snapshot) :
              EntityIdOf(Snapshot[i]) = players[j].entity_id
        /\ \A i \in 1..Len(Snapshot) :
              EntityIdOf(Snapshot[i]) = players[j].entity_id
                  => CopiedFrom(players[j], Snapshot[i])

\* payload[key] is a list
HasList(payload, key) == key \in DOMAIN payload /\ islist(payload[key])

(* C13: normalize_registry_payload returns the payload itself when it is a *)
(* list; for a mapping the first of 'data', 'result.data', 'entries', in   *)
(* that order, that is a list (so 'data' when both 'data' and 'entries'    *)
(* are lists); and an empty sequence for a mapping with none of them, for  *)
(* null and for any other value.  It returns for every payload.            *)
C13_NormalizerResolutionOrder ==
    pc = "normalized" =>
        IF islist(call_payload) THEN call_return = call_payload.items
        ELSE IF ~isdict(call_payload) THEN call_return = <<>>
        ELSE IF HasList(call_payload, "data")
        THEN call_return = call_payload["data"].items
        ELSE IF /\ "result" \in DOMAIN call_payload
                /\ isdict(call_payload["result"])
                /\ HasList(call_payload["result"], "data")
        THEN call_return = call_payload["result"]["data"].items
        ELSE IF HasList(call_payload, "entries")
        THEN call_return = call_payload["entries"].items
        ELSE call_return = <<>>

\* a mapping with a list under 'data', under 'result.data' and under
\* 'entries' was normalized to the list under 'data'
C13_Witness ==
    /\ pc = "normalized"
    /\ call_payload = [data |-> List(<<FIRST>>),
                       result |-> [data |-> List(<<SECOND>>)],
                       entries |-> List(<<THIRD>>)]
    /\ call_return = <<FIRST>>

\* a media_player record that qualifies by what the snapshot and the bulk
\* set alone say about it
QualifiesOnItsOwn(entity) ==
    /\ HasMediaPlayerId(entity)
    /\ isdict(get(entity, "attributes", EmptyDict))
    /\ \/ get(get(entity, "attributes", EmptyDict), "attribution", None)
             = ESPHOME_ATTRIBUTION
       \/ get(get(entity, "attributes", EmptyDict), "platform", None) = ESPHOME
       \/ entity.entity_id \in esphome_registry_entities

(* C14: when /states answered 2xx with a list, a state record of           *)
(* unexpected shape degrades only itself: every player the loop had        *)
(* appended is in the returned output, and so is every well-formed         *)
(* qualifying media_player record of the snapshot, before or after the     *)
(* malformed one.                                                          *)
C14_MalformedRecordDegradesOnlyItself ==
    (pc = "exited" /\ StatesFetched) =>
        /\ \A j \in 1..Len(esphome_players) :
              InOutput(esphome_players[j].entity_id)
        /\ \A i \in 1..Len(Snapshot) :
              QualifiesOnItsOwn(Snapshot[i]) => InOutput(Snapshot[i].entity_id)

\* the ids a bulk response body lists as ESPHome media players
FilteredIds(body) ==
    LET listed == normalize_registry_payload(body)
    IN  { listed[i].entity_id : i \in
            { k \in 1..Len(listed) :
                /\ isdict(listed[k])
                /\ isstr(get(listed[k], "entity_id", EMPTY_STR))
                /\ startswith(get(listed[k], "entity_id", EMPTY_STR),
                              MEDIA_PLAYER_PREFIX)
                /\ get(listed[k], "platform", None) = ESPHOME } }

Answered2xx(request) ==
    ~request.exc /\ request.status_code >= 200 /\ request.status_code < 300

(* C15: bulk resolution stops at the first attempt with a non-empty        *)
(* filtered set.  When the POST answered 2xx and lists at least one        *)
(* media_player entry of platform esphome, the GET is never issued and the *)
(* bulk set is exactly the ids the POST listed; when the POST answered 2xx *)
(* and lists none, the GET is issued and the bulk set is what the GET      *)
(* listed (nothing when the GET failed), never a merge of the two.         *)
C15_BulkStopsAtFirstNonEmpty ==
    (BulkDone /\ requests # <<>> /\ IsBulkPost(requests[1])
        /\ Answered2xx(requests[1])) =>
        IF FilteredIds(requests[1].body) # {}
        THEN /\ \A k \in 1..Len(requests) : ~IsBulkGet(requests[k])
             /\ esphome_registry_entities = FilteredIds(requests[1].body)
        ELSE /\ Len(requests) >= 2
             /\ IsBulkGet(requests[2])
             /\ esphome_registry_entities =
                   (IF Answered2xx(requests[2])
                    THEN FilteredIds(requests[2].body) ELSE {})

\* the requests issued by the step being taken
NewRequests == SubSeq(requests', Len(requests) + 1, Len(requests'))

\* a loop iteration that ran to its end
IterationStep == pc = "loop" /\ state_index' = state_index + 1

\* the registry entry a point-lookup response carries: the body, or its
\* 'data' field when the body has that key; None when that is no mapping
EntryIn(request) ==
    IF ~Answered2xx(request) \/ ~isdict(request.body) THEN None
    ELSE IF "data" \in DOMAIN request.body
    THEN (IF isdict(request.body.data) THEN request.body.data ELSE None)
    ELSE request.body

PointLookupsOf(reqs) == SelectSeq(reqs, IsPointLookup)

(* C16: point resolution of a media_player entity_id.  With an entry in    *)
(* entity_registry_cache no request is issued and the entry stays.         *)
(* Otherwise POST /config/entity_registry/get is issued first, and GET     *)
(* /config/entity_registry/entity/{entity_id} only right after that POST   *)
(* answered 405; a 2xx answer to the last of them whose entry (the body,   *)
(* or its 'data' field when present) is a mapping is stored in the cache   *)
(* under the entity_id, and a player appended by the iteration carries     *)
(* that entry's config_entry_id.  Hence no request is issued for an        *)
(* entity_id after a lookup of it succeeded.                               *)
C16_PointResolutionProtocol ==
    /\ [][ IterationStep /\ HasMediaPlayerId(Snapshot[state_index]) =>
             LET entity_id == Snapshot[state_index].entity_id
                 lookups == PointLookupsOf(NewRequests)
                 last == lookups[Len(lookups)]
             IN  IF entity_id \in DOMAIN entity_registry_cache
                 THEN /\ lookups = <<>>
                      /\ entity_registry_cache' = entity_registry_cache
                 ELSE /\ Len(lookups) \in {1, 2}
                      /\ lookups[1].method = "POST"
                      /\ lookups[1].url = URL_REGISTRY_GET
                      /\ lookups[1].key = entity_id
                      /\ Len(lookups) = 2 <=>
                            (~lookups[1].exc /\ lookups[1].status_code = 405)
                      /\ Len(lookups) = 2 =>
                            /\ lookups[2].method = "GET"
                            /\ lookups[2].url = URL_REGISTRY_ENTITY
                            /\ lookups[2].key = entity_id
                      /\ EntryIn(last) # None =>
                            /\ entity_id \in DOMAIN entity_registry_cache'
                            /\ entity_registry_cache'[entity_id] = EntryIn(last)
                            /\ Len(esphome_players') > Len(esphome_players) =>
                                  esphome_players'[Len(esphome_players')].config_entry_id
                                      = get(EntryIn(last), "config_entry_id", None) ]_vars
    /\ [](\A k, l \in 1..Len(requests) :
             (/\ IsPointLookup(requests[k]) /\ IsPointLookup(requests[l])
              /\ requests[k].index < requests[l].index
              /\ requests[k].key = requests[l].key)
                 => EntryIn(requests[k]) = None)

\* media_player.hallway appears twice: the first resolution went POST 405,
\* then GET 200 with the entry under 'data'; the second issued no request
C16_Witness ==
    /\ pc = "exited"
    /\ EntityIds(Snapshot) = <<MPH, MPH>>
    /\ Len(PointLookupsOf(requests)) = 2
    /\ requests[Len(requests)].index = 1
    /\ MPH \in DOMAIN entity_registry_cache
    /\ entity_registry_cache[MPH] = BareEntry(MPH, ESPHOME)
    /\ Len(players) = 2

\* the lines the step being taken wrote to standard error
NewStderr == SubSeq(stderr', Len(stderr) + 1, Len(stderr'))

\* a point lookup that ended in a transport error, an unparsable body or a
\* non-2xx answer
LookupFailed(request) ==
    request.exc \/ ~Answered2xx(request) \/ request.body = Invalid

(* C17: when the point lookup of a state record ends in a transport error, *)
(* an unexpected exception or a non-2xx response, a warning is written to  *)
(* standard error, entity_registry_cache is left unchanged, the record is  *)
(* judged with platform and config_entry_id unknown (it is appended only   *)
(* on the other signals, with config_entry_id null), and the loop goes on  *)
(* to the next record.                                                     *)
C17_FailedLookupWarnsAndContinues ==
    [][ (pc = "loop" /\ requests' # requests
           /\ PointLookupsOf(NewRequests) # <<>>
           /\ LookupFailed(PointLookupsOf(NewRequests)[Len(PointLookupsOf(NewRequests))]))
        => /\ \E i \in 1..Len(NewStderr) : NewStderr[i].text = WARN_REGISTRY_ENTRY
           /\ entity_registry_cache' = entity_registry_cache
           /\ pc' = "loop"
           /\ state_index' = state_index + 1
           /\ IF QualifiesOnItsOwn(Snapshot[state_index])
              THEN /\ Len(esphome_players') = Len(esphome_players) + 1
                   /\ esphome_players'[Len(esphome_players')].config_entry_id = None
              ELSE esphome_players' = esphome_players ]_vars

\* the diagnostics body has a list at data.storage_data.media_player
HasMediaPlayerPath(body) ==
    /\ isdict(body)
    /\ "data" \in DOMAIN body /\ isdict(body.data)
    /\ "storage_data" \in DOMAIN body.data /\ isdict(body.data.storage_data)
    /\ "media_player" \in DOMAIN body.data.storage_data
    /\ islist(body.data.storage_data.media_player)

\* a diagnostics request that answered 404, another non-2xx status, a
\* transport error, or a payload without the expected path
DiagnosticsUnusable(request) ==
    request.exc \/ ~Answered2xx(request) \/ ~HasMediaPlayerPath(request.body)

(* C18: every output record carries esphome_supported_formats as a         *)
(* sequence, empty when its config_entry_id is absent, and then no         *)
(* diagnostics request was issued for it; when the diagnostics request     *)
(* answered 404, another non-2xx status, a transport error or a payload    *)
(* with a type mismatch on the data.storage_data.media_player path, the    *)
(* player it was issued for is still in the output, with an empty          *)
(* sequence; diagnostics requests are issued only for players that         *)
(* qualified.                                                              *)
C18_FormatsAlwaysSequence ==
    /\ \A j \in 1..Len(players) :
          /\ players[j].esphome_supported_formats \in Seq({FLAC, MP3})
          /\ ~truthy(players[j].config_entry_id) =>
                players[j].esphome_supported_formats = <<>>
    /\ \A k \in 1..Len(requests) :
          IsDiagnostics(requests[k]) =>
              /\ truthy(requests[k].key)
              /\ requests[k].index \in 1..Len(Snapshot)
              /\ HasMediaPlayerId(Snapshot[requests[k].index])
              /\ pc = "exited" =>
                    \E j \in 1..Len(players) :
                        /\ players[j].entity_id = Snapshot[requests[k].index].entity_id
                        /\ players[j].config_entry_id = requests[k].key
                        /\ DiagnosticsUnusable(requests[k]) =>
                              players[j].esphome_supported_formats = <<>>

\* the positions in the log of the bulk POST, bulk GET and /states requests
BulkPosts == {k \in 1..Len(requests) : IsBulkPost(requests[k])}
BulkGets == {k \in 1..Len(requests) : IsBulkGet(requests[k])}
StatesGets == {k \in 1..Len(requests) : IsStatesGet(requests[k])}

(* C19: one attempt per endpoint and key in a run: at most one bulk POST,  *)
(* one bulk GET and one /states GET; at most one point-lookup POST and one *)
(* point-lookup GET per entity_id, also when the lookup failed and the     *)
(* entity_id appears again in the snapshot; at most one diagnostics GET    *)
(* per config_entry_id.                                                    *)
C19_OneAttemptPerEndpointAndKey ==
    /\ Cardinality(BulkPosts) <= 1
    /\ Cardinality(BulkGets) <= 1
    /\ Cardinality(StatesGets) <= 1
    /\ \A k, l \in 1..Len(requests) :
          (/\ k # l
           /\ IsPointLookup(requests[k]) /\ IsPointLookup(requests[l])
           /\ requests[k].method = requests[l].method)
              => requests[k].key # requests[l].key
    /\ \A k, l \in 1..Len(requests) :
          (k # l /\ IsDiagnostics(requests[k]) /\ IsDiagnostics(requests[l]))
              => requests[k].key # requests[l].key

\* the entries of a bulk response that carry a non-empty entity_id
KeyedEntries(body) ==
    LET listed == normalize_registry_payload(body)
    IN  { listed[i] : i \in
            { k \in 1..Len(listed) :
                isdict(listed[k]) /\ truthy(get(listed[k], "entity_id", None)) } }

\* every entity of the bulk set is cached with platform 'esphome'
BulkSetCachedAsEsphome ==
    \A entity_id \in esphome_registry_entities :
        /\ entity_id \in DOMAIN entity_registry_cache
        /\ get(entity_registry_cache[entity_id], "platform", None) = ESPHOME

\* no point lookup is issued for an entity of the bulk set
NoLookupForBulkSet ==
    \A k \in 1..Len(requests) :
        IsPointLookup(requests[k]) =>
            requests[k].key \notin esphome_registry_entities

\* every keyed entry of a 2xx bulk response is in the cache
BulkEntriesCached ==
    \A k \in 1..Len(requests) :
        ((IsBulkPost(requests[k]) \/ IsBulkGet(requests[k]))
            /\ Answered2xx(requests[k])) =>
            \A entry \in KeyedEntries(requests[k].body) :
                entry.entity_id \in DOMAIN entity_registry_cache

(* C20: after bulk resolution every entity_id of the bulk set has an entry *)
(* in entity_registry_cache whose platform is 'esphome', also when the     *)
(* response lists the entity_id more than once with different platforms;   *)
(* no point lookup is issued for an entity of the bulk set and its player  *)
(* takes config_entry_id from that entry; and every entry with a non-empty *)
(* entity_id of a 2xx bulk response is cached, also when the attempt's     *)
(* filtered set was empty.                                                 *)
C20_BulkSetCachedAsEsphome ==
    BulkDone =>
        /\ BulkSetCachedAsEsphome
        /\ NoLookupForBulkSet
        /\ \A j \in 1..Len(esphome_players) :
              esphome_players[j].entity_id \in esphome_registry_entities =>
                  esphome_players[j].config_entry_id =
                      get(entity_registry_cache[esphome_players[j].entity_id],
                          "config_entry_id", None)
        /\ BulkEntriesCached

====
